---- MODULE Spec2Model ----
(***************************************************************************)
(* A model of glu (src/main.go), a command-line client for the user API of *)
(* a GitLab server.  One run of the program is one behaviour: main parses  *)
(* the flags, picks one action, and the action talks to the remote server. *)
(* The remote server, the console and the network are the environment:     *)
(* every response, status line and console line is drawn from a small set. *)
(*                                                                         *)
(* Text that the program inspects (search text, names, e-mail addresses,   *)
(* header values, page numbers in a URL) is a sequence of one-character    *)
(* strings, so that substring search, the two regular expressions, Atoi    *)
(* and Itoa are computed character by character.  Text the program only    *)
(* compares as a whole or prints (status lines, the -b value) is a string. *)
(* The -t token is only pasted into the URLs and is left out.              *)
(***************************************************************************)
EXTENDS Integers, Sequences, FiniteSets

VARIABLES
    pc,            \* the statement main / the running function is at
    exit,          \* process exit code once the run has ended, -1 before
    searchText,    \* flag -s
    bu,            \* flag -b
    create,        \* flag -c
    active,        \* flag -a
    ran,           \* the actions main has started, in order
    reqs,          \* the HTTP requests issued so far, in order
    response,      \* getUsers: the response to the request for page 1
    jsonResponse,  \* getUsers: the users accumulated so far; then main's users
    currentPage,   \* getUsers: loop variable
    totalPages,    \* getUsers: loop bound
    deferred,      \* getUsers: the deferred Body.Close() calls, oldest first
    open,          \* the requests whose response body has not been closed
    served,        \* history: the pages decoded so far, in order
    faultLog,      \* history: per request, the faults of its response
    inputName,     \* createUser: console input, newline removed
    inputEmail,
    inputUserName,
    out,           \* the lines written to standard output, in order
    errOut         \* the lines written by log.Fatalf

vars == << pc, exit, searchText, bu, create, active, ran, reqs, response,
           jsonResponse, currentPage, totalPages, deferred, open, served,
           faultLog, inputName, inputEmail, inputUserName, out, errOut >>

----------------------------------------------------------------------------
(* Bounds of the model *)

\* the largest page number the remote puts in X-Page or X-Total-Pages
MaxPages == 2

----------------------------------------------------------------------------
(* Characters and text *)

Lower == {"a","b","c","d","e","f","g","h","i","j","k","l","m",
          "n","o","p","q","r","s","t","u","v","w","x","y","z"}

Upper == {"A","B","C","D","E","F","G","H","I","J","K","L","M",
          "N","O","P","Q","R","S","T","U","V","W","X","Y","Z"}

DigitChars == << "0","1","2","3","4","5","6","7","8","9" >>

Digits == { DigitChars[i] : i \in 1..10 }

Letters == Lower \cup Upper

Alnum == Letters \cup Digits

\* n copies of the character c
Rep(c, n) == [ i \in 1..n |-> c ]

\* strings.Contains(str, substr)
Contains(str, substr) ==
    \E i \in 0..(Len(str) - Len(substr)) :
        SubSeq(str, i + 1, i + Len(substr)) = substr

\* strings.Replace(str, "\n", "", -1)
NotNewline(c) == c # "\n"

StripNewlines(str) == SelectSeq(str, NotNewline)

\* strconv.FormatBool
FormatBool(b) == IF b THEN "true" ELSE "false"

DigitVal(c) == (CHOOSE i \in 1..10 : DigitChars[i] = c) - 1

RECURSIVE ParseDigits(_)
ParseDigits(str) ==
    IF str = << >> THEN 0
    ELSE ParseDigits(SubSeq(str, 1, Len(str) - 1)) * 10 + DigitVal(str[Len(str)])

\* strconv.Atoi: an optional sign, then one or more decimal digits
Atoi(str) ==
    LET signed == Len(str) > 0 /\ str[1] \in {"+", "-"}
        body   == IF signed THEN Tail(str) ELSE str
        bad    == body = << >> \/ \E i \in 1..Len(body) : body[i] \notin Digits
    IN  IF bad THEN [err |-> TRUE, val |-> 0]
        ELSE [err |-> FALSE,
              val |-> IF signed /\ str[1] = "-" THEN 0 - ParseDigits(body)
                      ELSE ParseDigits(body)]

\* strconv.Itoa
RECURSIVE Itoa(_)
Itoa(n) ==
    IF n < 0 THEN << "-" >> \o Itoa(0 - n)
    ELSE IF n < 10 THEN << DigitChars[n + 1] >>
    ELSE Itoa(n \div 10) \o << DigitChars[(n % 10) + 1] >>

----------------------------------------------------------------------------
(* Users: the fields of GitlabUsers the program reads *)

U1 == [ID |-> 1, Name |-> << "J","o" >>, Username |-> << "a","K" >>,
       Email |-> << "m","@","n" >>]

U2 == [ID |-> 2, Name |-> << "k" >>, Username |-> << "r" >>,
       Email |-> << "o","@","n" >>]

UserPool == {U1, U2}

\* the pages the remote may deliver: users of the pool in any order, no user
\* twice on one page
Bodies ==
    UNION { { b \in [1..n -> UserPool] :
                \A i, j \in 1..n : i # j => b[i] # b[j] } :
            n \in 0..Cardinality(UserPool) }

\* the values of flag -s: unset, or a text to search for
SearchTexts == { << >>, << "o" >>, << "K" >> }

\* the values of flag -b: unset, or a user id
BlockIDs == { "", "7" }

----------------------------------------------------------------------------
(* The remote's answers *)

NoResponse == [kind |-> "none"]

\* the values of the X-Total-Pages header: absent, not a number, or a count
XTotalVals ==
    { << >>, << << "x" >> >> } \cup { << Itoa(n) >> : n \in 0..MaxPages }

\* the values of the X-Page header: absent, not a number, or a page number,
\* which need not be the page that was asked for
XPageVals ==
    { << >>, << << "x" >> >> } \cup { << Itoa(n) >> : n \in 0..MaxPages }

\* what http.Get returns: a transport error, or a response with its headers
\* (Header maps a name to a list of values)
Responses ==
    { [kind |-> "resp", neterr |-> TRUE,
       Header |-> [XPage |-> << >>, XTotalPages |-> << >>]] }
    \cup
    { [kind |-> "resp", neterr |-> FALSE,
       Header |-> [XPage |-> p, XTotalPages |-> t]] :
         p \in XPageVals, t \in XTotalVals }

\* what ioutil.ReadAll returns: a read error, bytes that are no JSON array of
\* users, or the JSON of a page of users
BodyReads ==
    { [kind |-> "data", readerr |-> TRUE, valid |-> FALSE, users |-> << >>],
      [kind |-> "data", readerr |-> FALSE, valid |-> FALSE, users |-> << >>] }
    \cup
    { [kind |-> "data", readerr |-> FALSE, valid |-> TRUE, users |-> b] :
         b \in Bodies }

\* json.Unmarshal(data, &v) into a GitlabUsers value
Unmarshal(d) == [err |-> ~d.valid, val |-> d.users]

\* history: the faults a header list carries
HeaderFault(h) == h = << >> \/ Atoi(h[1]).err

ResponseFaults(r) ==
    IF r.neterr THEN {"neterr"}
    ELSE IF HeaderFault(r.Header.XPage) \/ HeaderFault(r.Header.XTotalPages)
    THEN {"header"}
    ELSE {}

BodyFaults(d) ==
    IF d.readerr THEN {"readerr"} ELSE IF ~d.valid THEN {"badjson"} ELSE {}

\* the status lines the remote may answer a POST with
StatusLines == { "201 Created", "404 Not Found", "403 Forbidden",
                 "500 Internal Server Error", "200 OK" }

----------------------------------------------------------------------------
(* Exit codes *)

\* a run that returns from main
ExitOK == 0

\* log.Fatalf calls os.Exit(1)
ExitFatalf == 1

\* the Go runtime ends a panicking program with status 2
ExitPanic == 2

----------------------------------------------------------------------------
(* The program *)

flagVars == << searchText, bu, create, active >>

inputVars == << inputName, inputEmail, inputUserName >>

fetchVars == << response, jsonResponse, currentPage, totalPages >>

histVars == << served, faultLog >>

\* after flag.Parse(): any combination of -s, -b, -c and -a
Init ==
    /\ pc = "main"
    /\ exit = -1
    /\ searchText \in SearchTexts
    /\ bu \in BlockIDs
    /\ create \in BOOLEAN
    /\ active \in BOOLEAN
    /\ ran = << >>
    /\ reqs = << >>
    /\ response = NoResponse
    /\ jsonResponse = << >>
    /\ currentPage = 0
    /\ totalPages = 0
    /\ deferred = << >>
    /\ open = {}
    /\ served = << >>
    /\ faultLog = << >>
    /\ inputName = << >>
    /\ inputEmail = << >>
    /\ inputUserName = << >>
    /\ out = << >>
    /\ errOut = << >>

\* check, were it to let every error pass
checkIgnored(e) == FALSE

\* check(e): TRUE when it panics
check(e) == e

\* a panic unwinds the stack: the deferred calls run, newest first, and the
\* runtime ends the process
Panic ==
    /\ pc' = "fatal"
    /\ exit' = ExitPanic
    /\ open' = open \ { deferred[i] : i \in 1..Len(deferred) }
    /\ deferred' = << >>
    /\ errOut' = Append(errOut, [kind |-> "panic"])

\* the chain of main, were the block test to come first
SelectActionBlockFirst(s, b, c) ==
    IF b # "" THEN "block"
    ELSE IF s # << >> THEN "search"
    ELSE IF c THEN "create"
    ELSE "list"

\* the if / else-if chain of main
SelectAction(s, b, c) ==
    IF s # << >> THEN "search"
    ELSE IF b # "" THEN "block"
    ELSE IF c THEN "create"
    ELSE "list"

Main ==
    /\ pc = "main"
    /\ LET a == SelectAction(searchText, bu, create)
       IN  /\ ran' = Append(ran, a)
           /\ pc' = CASE a = "search" -> "get_first"
                      [] a = "list"   -> "get_first"
                      [] a = "block"  -> "block"
                      [] a = "create" -> "create_read"
    /\ UNCHANGED << exit, flagVars, reqs, fetchVars, deferred, open, histVars,
                    inputVars, out, errOut >>

\* the listing request of getUsers for one page
UsersRequest(page) ==
    [method |-> "GET", path |-> "users", page |-> page,
     active |-> FormatBool(active)]

\* http.Get, check(httpErr), defer response.Body.Close().  The response of
\* the first request is the function's variable response; a response inside
\* the loop is a variable of the loop body, of which only the body is used
HttpGet(page, nextpc, first) ==
    \E r \in Responses :
        /\ reqs' = Append(reqs, UsersRequest(page))
        /\ faultLog' = Append(faultLog, ResponseFaults(r))
        /\ IF check(r.neterr)
           THEN /\ Panic
                /\ UNCHANGED response
           ELSE /\ response' = IF first THEN r ELSE response
                /\ deferred' = Append(deferred, Len(reqs) + 1)
                /\ open' = open \cup { Len(reqs) + 1 }
                /\ pc' = nextpc
                /\ UNCHANGED << exit, errOut >>
        /\ UNCHANGED << flagVars, ran, jsonResponse, currentPage, totalPages,
                        served, inputVars, out >>

HttpGetFirst ==
    /\ pc = "get_first"
    /\ HttpGet(<< "1" >>, "read_first", TRUE)

\* ioutil.ReadAll(response.Body), check(responseErr),
\* json.Unmarshal(data, &jsonResponse), check(jsonErr)
DecodeFirst ==
    /\ pc = "read_first"
    /\ \E data \in BodyReads :
         /\ faultLog' = [faultLog EXCEPT ![Len(faultLog)] = @ \cup BodyFaults(data)]
         /\ IF check(data.readerr) \/ check(Unmarshal(data).err)
            THEN /\ Panic
                 /\ UNCHANGED << jsonResponse, served >>
            ELSE /\ jsonResponse' = Unmarshal(data).val
                 /\ served' = Append(served, Unmarshal(data).val)
                 /\ pc' = "headers"
                 /\ UNCHANGED << exit, deferred, open, errOut >>
    /\ UNCHANGED << flagVars, ran, reqs, response, currentPage, totalPages,
                    inputVars, out >>

\* response.Header["X-Page"][0] and ["X-Total-Pages"][0] through strconv.Atoi:
\* indexing an absent header panics (index out of range), a value that is no
\* number makes check panic
ParseHeaders ==
    /\ pc = "headers"
    /\ LET xp == response.Header.XPage
           xt == response.Header.XTotalPages
           cp == IF xp = << >> THEN [err |-> TRUE, val |-> 0] ELSE Atoi(xp[1])
           tp == IF xt = << >> THEN [err |-> TRUE, val |-> 0] ELSE Atoi(xt[1])
       IN  IF \/ xp = << >>
              \/ check(cp.err)
              \/ xt = << >>
              \/ check(tp.err)
           THEN /\ Panic
                /\ UNCHANGED << currentPage, totalPages >>
           ELSE /\ currentPage' = cp.val
                /\ totalPages' = tp.val
                /\ pc' = "loop"
                /\ UNCHANGED << exit, deferred, open, errOut >>
    /\ UNCHANGED << flagVars, ran, reqs, response, jsonResponse, histVars,
                    inputVars, out >>

\* the deferred Body.Close() calls of a returning getUsers
RunDeferred(o, d) == o \ { d[i] : i \in 1..Len(d) }

\* for ; currentPage < totalPages; ... and, when the loop ends, return
LoopTest ==
    /\ pc = "loop"
    /\ IF currentPage < totalPages
       THEN /\ pc' = "get_next"
            /\ UNCHANGED << deferred, open >>
       ELSE /\ pc' = "sort"
            /\ open' = RunDeferred(open, deferred)
            /\ deferred' = << >>
    /\ UNCHANGED << exit, flagVars, ran, reqs, response, jsonResponse,
                    currentPage, totalPages, histVars, inputVars, out, errOut >>

\* the next page, were the + 1 missing
NextPageSame(cur) == cur

\* nextPage := strconv.Itoa(currentPage + 1)
NextPage(cur) == cur + 1

HttpGetNext ==
    /\ pc = "get_next"
    /\ HttpGet(Itoa(NextPage(currentPage)), "read_next", FALSE)

\* the append, were its arguments swapped
AppendPageBefore(acc, page) == page \o acc

\* jsonResponse = append(jsonResponse, tmpJsonResponse...)
AppendPage(acc, page) == acc \o page

\* ioutil.ReadAll(response.Body), check(responseErr),
\* json.Unmarshal(data, &tmpJsonResponse), check(jsonErr), the append, and the
\* loop's currentPage++
DecodeNext ==
    /\ pc = "read_next"
    /\ \E data \in BodyReads :
         /\ faultLog' = [faultLog EXCEPT ![Len(faultLog)] = @ \cup BodyFaults(data)]
         /\ IF check(data.readerr) \/ check(Unmarshal(data).err)
            THEN /\ Panic
                 /\ UNCHANGED << jsonResponse, served, currentPage >>
            ELSE /\ jsonResponse' = AppendPage(jsonResponse, Unmarshal(data).val)
                 /\ served' = Append(served, Unmarshal(data).val)
                 /\ currentPage' = currentPage + 1
                 /\ pc' = "loop"
                 /\ UNCHANGED << exit, deferred, open, errOut >>
    /\ UNCHANGED << flagVars, ran, reqs, response, totalPages, inputVars, out >>

----------------------------------------------------------------------------
(* Sorting: sort.Sort(users) through GitlabUsers.Len, Less and Swap.  For a   *)
(* slice of at most 12 elements sort.Sort is an insertion sort; the          *)
(* collections of this model are shorter than that.  Go indexes from 0, the  *)
(* model from 1.                                                             *)

\* func (s GitlabUsers) Len() int
UsersLen(s) == Len(s)

\* Less, were the comparison reversed
LessDescending(s, i, j) == s[i].ID > s[j].ID

\* func (s GitlabUsers) Less(i, j int) bool
Less(s, i, j) == s[i].ID < s[j].ID

\* func (s GitlabUsers) Swap(i, j int)
Swap(s, i, j) == [s EXCEPT ![i] = s[j], ![j] = s[i]]

\* for j := i; j > a && data.Less(j, j-1); j-- { data.Swap(j, j-1) }
RECURSIVE InsertDown(_, _)
InsertDown(s, j) ==
    IF j > 1 /\ Less(s, j, j - 1)
    THEN InsertDown(Swap(s, j, j - 1), j - 1)
    ELSE s

\* for i := a + 1; i < b; i++ { ... }
RECURSIVE InsertionSort(_, _)
InsertionSort(s, i) ==
    IF i > UsersLen(s) THEN s
    ELSE InsertionSort(InsertDown(s, i), i + 1)

SortUsers(s) == InsertionSort(s, 2)

\* users := getUsers(token, active); sort.Sort(users)
Sort ==
    /\ pc = "sort"
    /\ jsonResponse' = SortUsers(jsonResponse)
    /\ pc' = IF ran[Len(ran)] = "search" THEN "search" ELSE "display"
    /\ UNCHANGED << exit, flagVars, ran, reqs, response, currentPage,
                    totalPages, deferred, open, histVars, inputVars, out, errOut >>

----------------------------------------------------------------------------
(* Presenting *)

\* the condition, were the e-mail left out
MatchesNameOrUsername(s, v) ==
    \/ Contains(v.Name, s)
    \/ Contains(v.Username, s)

\* the condition of the if in searchUsers
Matches(s, v) ==
    \/ Contains(v.Name, s)
    \/ Contains(v.Username, s)
    \/ Contains(v.Email, s)

\* the first loop of searchUsers, from index i on: foundUsers
RECURSIVE FoundUsers(_, _, _)
FoundUsers(s, u, i) ==
    IF i > Len(u) THEN << >>
    ELSE IF Matches(s, u[i])
         THEN << [Name |-> u[i].Name, ID |-> u[i].ID,
                  Username |-> u[i].Username, Email |-> u[i].Email] >>
              \o FoundUsers(s, u, i + 1)
         ELSE FoundUsers(s, u, i + 1)

\* what searchUsers prints: a row per found user, or one "No users found"
SearchOutput(s, u) ==
    LET found == FoundUsers(s, u, 1)
    IN  IF Len(found) > 0
        THEN [ i \in 1..Len(found) |->
                 [kind |-> "row", ID |-> found[i].ID, Name |-> found[i].Name,
                  Username |-> found[i].Username, Email |-> found[i].Email] ]
        ELSE << [kind |-> "nousers"] >>

SearchUsers ==
    /\ pc = "search"
    /\ out' = out \o SearchOutput(searchText, jsonResponse)
    /\ pc' = "done"
    /\ exit' = ExitOK
    /\ UNCHANGED << flagVars, ran, reqs, fetchVars, deferred, open, histVars,
                    inputVars, errOut >>

\* what displayAllUsers prints: three lines per user
RECURSIVE DisplayOutput(_, _)
DisplayOutput(u, i) ==
    IF i > Len(u) THEN << >>
    ELSE << [kind |-> "separator"],
            [kind |-> "id", ID |-> u[i].ID],
            [kind |-> "name", Name |-> u[i].Name] >>
         \o DisplayOutput(u, i + 1)

DisplayAllUsers ==
    /\ pc = "display"
    /\ out' = out \o DisplayOutput(jsonResponse, 1)
    /\ pc' = "done"
    /\ exit' = ExitOK
    /\ UNCHANGED << flagVars, ran, reqs, fetchVars, deferred, open, histVars,
                    inputVars, errOut >>

----------------------------------------------------------------------------
(* Blocking *)

\* the switch, were the 403 case missing
BlockOutputNoForbidden(status, u) ==
    CASE status = "201 Created" ->
           << [kind |-> "blocked", user |-> u],
              [kind |-> "status", status |-> status] >>
      [] status = "404 Not Found" ->
           << [kind |-> "notfound", user |-> u],
              [kind |-> "status", status |-> status] >>
      [] OTHER ->
           << [kind |-> "failed", user |-> u],
              [kind |-> "status", status |-> status] >>

\* the switch on resp.Status: the outcome message, then the status line
BlockOutput(status, u) ==
    CASE status = "201 Created" ->
           << [kind |-> "blocked", user |-> u],
              [kind |-> "status", status |-> status] >>
      [] status = "404 Not Found" ->
           << [kind |-> "notfound", user |-> u],
              [kind |-> "status", status |-> status] >>
      [] status = "403 Forbidden" ->
           << [kind |-> "alreadyblocked", user |-> u],
              [kind |-> "status", status |-> status] >>
      [] OTHER ->
           << [kind |-> "failed", user |-> u],
              [kind |-> "status", status |-> status] >>

\* what http.Post returns: a transport error or a response with a status line
\* (blockUser and createUser never close the body of that response)
PostResponses ==
    { [neterr |-> TRUE, Status |-> ""] }
    \cup { [neterr |-> FALSE, Status |-> st] : st \in StatusLines }

BlockUser ==
    /\ pc = "block"
    /\ \E r \in PostResponses :
         /\ reqs' = Append(reqs, [method |-> "POST", path |-> "users/block",
                                  user |-> bu])
         /\ IF check(r.neterr)
            THEN /\ Panic
                 /\ UNCHANGED out
            ELSE /\ out' = out \o BlockOutput(r.Status, bu)
                 /\ open' = open \cup { Len(reqs) + 1 }
                 /\ pc' = "done"
                 /\ exit' = ExitOK
                 /\ UNCHANGED << deferred, errOut >>
    /\ UNCHANGED << flagVars, ran, fetchVars, histVars, inputVars >>

----------------------------------------------------------------------------
(* Creating *)

\* len(inputEmail) > 254
MaxEmailLen == 254

\* the {0,61} of a host label in rxEmail
LabelMidMax == 61

\* isAlpha, were the class to admit digits: ^[A-Za-z0-9]+$
isAlphaOrDigit(str) ==
    /\ Len(str) >= 1
    /\ \A i \in 1..Len(str) : str[i] \in Alnum

\* isAlpha: ^[A-Za-z]+$
isAlpha(str) ==
    /\ Len(str) >= 1
    /\ \A i \in 1..Len(str) : str[i] \in Letters

\* the grave accent (U+0060), which a TLA+ string cannot hold
GraveAccent == "grave"

\* the character class of the local part of rxEmail
LocalChars ==
    Alnum \cup { ".", "!", "#", "$", "%", "&", "'", "*", "+", "/", "=", "?",
                 "^", "_", GraveAccent, "{", "|", "}", "~", "-" }

\* the host part of rxEmail: labels separated by single dots, every label one
\* letter or digit, or up to LabelMidMax letters, digits and hyphens between
\* two letters or digits
HostMatch(h) ==
    /\ Len(h) >= 1
    /\ \A i \in 1..Len(h) : h[i] \in Alnum \cup { "-", "." }
    /\ h[1] \in Alnum
    /\ h[Len(h)] \in Alnum
    /\ \A i \in 1..Len(h) :
         h[i] = "." => /\ i > 1
                       /\ i < Len(h)
                       /\ h[i - 1] \in Alnum
                       /\ h[i + 1] \in Alnum
    /\ \A i \in 1..(Len(h) - (LabelMidMax + 2)) :
         \E j \in i..(i + LabelMidMax + 2) : h[j] = "."

\* rxEmail: ^local@host$, the local part one or more of LocalChars
rxEmail(str) ==
    \E p \in 1..Len(str) :
        /\ str[p] = "@"
        /\ p > 1
        /\ \A i \in 1..(p - 1) : str[i] \in LocalChars
        /\ HostMatch(SubSeq(str, p + 1, Len(str)))

\* a console line: the text and its newline
Line(str) == str \o << "\n" >>

NameLines == { Line(<< "B","o","b" >>), Line(<< "b","o","b"," ","2","!" >>) }

UserNameLines ==
    { Line(<< "b","o","b" >>), Line(<< "b","o","b","1" >>),
      Line(<< "b","o","b","_","2" >>), Line(<< >>), << >>,
      Line(<< "B","o","b" >>), Line(<< "b","o"," ","b" >>) }

AtBCom == << "@","b",".","c","o","m" >>

EmailLines ==
    { Line(<< "a" >> \o AtBCom),
      Line(<< "n","o","t","-","a","n","-","e","m","a","i","l" >>),
      Line(Rep("a", MaxEmailLen - 5) \o AtBCom),
      Line(Rep("a", MaxEmailLen - 6) \o AtBCom),
      Line(<< "a","@" >> \o Rep("b", LabelMidMax + 3)),
      Line(<< "a","@" >> \o Rep("b", LabelMidMax + 2)),
      Line(<< "a","@","b",".",".","c" >>),
      Line(<< "a",".","b","+","c","@","d","-","e",".","f" >>),
      Line(AtBCom) }

\* the three prompts and reads of createUser
CreateRead ==
    /\ pc = "create_read"
    /\ \E n \in NameLines, e \in EmailLines, u \in UserNameLines :
         /\ inputName' = StripNewlines(n)
         /\ inputEmail' = StripNewlines(e)
         /\ inputUserName' = StripNewlines(u)
    /\ out' = out \o << [kind |-> "prompt", text |-> "Name: "],
                        [kind |-> "prompt", text |-> "Email: "],
                        [kind |-> "prompt", text |-> "Username: "] >>
    /\ pc' = "create_validate"
    /\ UNCHANGED << exit, flagVars, ran, reqs, fetchVars, deferred, open,
                    histVars, errOut >>

\* log.Fatalf: the message, then os.Exit(1)
Fatalf(what, value) ==
    /\ errOut' = Append(errOut, [kind |-> "fatalf", what |-> what, value |-> value])
    /\ pc' = "fatal"
    /\ exit' = ExitFatalf

\* the two validations of createUser
CreateValidate ==
    /\ pc = "create_validate"
    /\ IF ~isAlpha(inputUserName)
       THEN Fatalf("username", inputUserName)
       ELSE IF Len(inputEmail) > MaxEmailLen \/ ~rxEmail(inputEmail)
       THEN Fatalf("email", inputEmail)
       ELSE /\ pc' = "create_post"
            /\ UNCHANGED << exit, errOut >>
    /\ UNCHANGED << flagVars, ran, reqs, fetchVars, deferred, open, histVars,
                    inputVars, out >>

\* the JSON payload of createUser
Payload ==
    [email |-> inputEmail, name |-> inputName, username |-> inputUserName,
     reset_password |-> "true"]

\* http.Post of the payload, check(postErr), fmt.Println(resp.Status)
CreatePost ==
    /\ pc = "create_post"
    /\ \E r \in PostResponses :
         /\ reqs' = Append(reqs, [method |-> "POST", path |-> "users",
                                  payload |-> Payload])
         /\ IF check(r.neterr)
            THEN /\ Panic
                 /\ UNCHANGED out
            ELSE /\ out' = Append(out, [kind |-> "status", status |-> r.Status])
                 /\ open' = open \cup { Len(reqs) + 1 }
                 /\ pc' = "done"
                 /\ exit' = ExitOK
                 /\ UNCHANGED << deferred, errOut >>
    /\ UNCHANGED << flagVars, ran, fetchVars, histVars, inputVars >>

----------------------------------------------------------------------------

Next ==
    \/ Main
    \/ HttpGetFirst
    \/ DecodeFirst
    \/ ParseHeaders
    \/ LoopTest
    \/ HttpGetNext
    \/ DecodeNext
    \/ Sort
    \/ SearchUsers
    \/ DisplayAllUsers
    \/ BlockUser
    \/ CreateRead
    \/ CreateValidate
    \/ CreatePost

Spec == Init /\ [][Next]_vars

----------------------------------------------------------------------------
(* Properties *)

\* the run fetches: main chose the search or the list action
IsFetchRun == ran # << >> /\ ran[1] \in {"search", "list"}

\* getUsers has returned to main
FetchReturned == pc \in {"sort", "search", "display", "done"} /\ IsFetchRun

\* the concatenation of a sequence of pages
RECURSIVE Flatten(_)
Flatten(pages) ==
    IF pages = << >> THEN << >>
    ELSE Head(pages) \o Flatten(Tail(pages))

RECURSIVE SumLen(_)
SumLen(pages) ==
    IF pages = << >> THEN 0
    ELSE Len(Head(pages)) + SumLen(Tail(pages))

\* how often x occurs in seq
Count(seq, x) == Cardinality({ i \in 1..Len(seq) : seq[i] = x })

\* the identifiers a run printed, in print order
IsIdLine(l) == l.kind \in {"row", "id"}

PrintedIDs == LET ls == SelectSeq(out, IsIdLine) IN [ i \in 1..Len(ls) |-> ls[i].ID ]

\* the first response announced the page that was asked for
FirstPageIsOne == response.Header.XPage = << << "1" >> >>

(* C1: when getUsers returns, after pages were served without a failure, its *)
(* result is the concatenation of the served pages in request order and its  *)
(* length is the sum of the page lengths; when the first response carried    *)
(* X-Page: 1, the pages served are page 1, ..., page N for the announced     *)
(* total N (one page when the total is below one).                           *)
C1_FetchConcatenatesPages ==
    (pc = "sort") =>
        /\ jsonResponse = Flatten(served)
        /\ Len(jsonResponse) = SumLen(served)
        /\ Len(served) = Len(reqs)
        /\ FirstPageIsOne =>
             /\ Len(served) = IF totalPages >= 1 THEN totalPages ELSE 1
             /\ \A i \in 1..Len(reqs) : reqs[i].page = Itoa(i)

C1_Witness ==
    /\ pc = "sort"
    /\ FirstPageIsOne
    /\ Len(served) = 2
    /\ served[1] = << U2, U1 >>
    /\ served[2] = << U2 >>
    /\ jsonResponse = << U2, U1, U2 >>

\* the page number of request i
C2_Page(i) == Atoi(reqs[i].page).val

\* the X-Page number of the first response, once ParseHeaders has read it
C2_FirstPage == Atoi(response.Header.XPage[1]).val

\* every request is a GET for a page number, issued only when every earlier
\* response has been decoded
C2_OneAtATime ==
    /\ \A i \in 1..Len(reqs) :
         /\ reqs[i].method = "GET"
         /\ ~Atoi(reqs[i].page).err
    /\ Len(reqs) <= Len(served) + 1

(* C2, as claimed: the requests of a fetch are issued one at a time, for     *)
(* page 1, 2, 3, ... in that order, no page twice; a fetch that returns has  *)
(* issued total - current additional requests, none when total <= current,   *)
(* current and total being the numbers in the first response's headers.      *)
C2_PagesOneTwoThree ==
    IsFetchRun =>
        /\ C2_OneAtATime
        /\ \A i \in 1..Len(reqs) : C2_Page(i) = i
        /\ \A i, j \in 1..Len(reqs) : i # j => C2_Page(i) # C2_Page(j)
        /\ FetchReturned =>
             Len(reqs) = 1 + (IF totalPages > C2_FirstPage
                              THEN totalPages - C2_FirstPage ELSE 0)

(* C2, amended: the requests of a fetch are issued one at a time: page 1,    *)
(* then pages current + 1, ..., total in that order, where current and total *)
(* are the X-Page and X-Total-Pages numbers of the first response; no        *)
(* further request when total <= current, else total - current further       *)
(* requests.  No page is requested twice when that X-Page is at least 1, and *)
(* the pages are 1, 2, 3, ... when it is 1.                                  *)
C2_SequentialPages ==
    IsFetchRun =>
        /\ C2_OneAtATime
        /\ Len(reqs) >= 1 => C2_Page(1) = 1
        /\ Len(reqs) >= 2 =>
             /\ \A i \in 2..Len(reqs) : C2_Page(i) = C2_FirstPage + i - 1
             /\ C2_Page(Len(reqs)) <= totalPages
             /\ C2_FirstPage >= 1 =>
                  \A i, j \in 1..Len(reqs) : i # j => C2_Page(i) # C2_Page(j)
             /\ FirstPageIsOne => \A i \in 1..Len(reqs) : C2_Page(i) = i
        /\ FetchReturned =>
             Len(reqs) = 1 + (IF totalPages > C2_FirstPage
                              THEN totalPages - C2_FirstPage ELSE 0)

C2_Witness ==
    /\ FetchReturned
    /\ FirstPageIsOne
    /\ totalPages = 2
    /\ Len(reqs) = 2
    /\ reqs[2].page = << "2" >>

\* the action the flags select, by first match
C3_Expected ==
    IF searchText # << >> THEN "search"
    ELSE IF bu # "" THEN "block"
    ELSE IF create THEN "create"
    ELSE "list"

\* exactly one action has started, the selected one, and every request and
\* every printed line belongs to it
C3_OneActionByPrecedence ==
    (pc # "main") =>
        /\ ran = << C3_Expected >>
        /\ \A i \in 1..Len(reqs) :
             /\ (reqs[i].method = "GET") => ran[1] \in {"search", "list"}
             /\ (reqs[i].method = "POST" /\ reqs[i].path = "users/block")
                  => ran[1] = "block"
             /\ (reqs[i].method = "POST" /\ reqs[i].path = "users")
                  => ran[1] = "create"
        /\ \A i \in 1..Len(out) :
             /\ out[i].kind \in {"row", "nousers"} => ran[1] = "search"
             /\ out[i].kind \in {"separator", "id", "name"} => ran[1] = "list"
             /\ out[i].kind \in {"blocked", "notfound", "alreadyblocked", "failed"}
                  => ran[1] = "block"
             /\ out[i].kind = "prompt" => ran[1] = "create"

(* C3, as claimed: one action by precedence, and the default action lists    *)
(* the active users only, whatever -a is.                                    *)
C3_DefaultListsActiveOnly ==
    /\ C3_OneActionByPrecedence
    /\ (pc # "main" /\ ran[1] = "list")
         => \A i \in 1..Len(reqs) : reqs[i].active = "true"

(* C3, amended: one action by precedence; the default action lists the users *)
(* with the filter active=<value of -a>: active users only when -a is true.  *)
C3_DefaultListsByActiveFlag ==
    /\ C3_OneActionByPrecedence
    /\ (pc # "main" /\ ran[1] \in {"list", "search"})
         => \A i \in 1..Len(reqs) :
              reqs[i].active = IF active THEN "true" ELSE "false"

C3_Witness ==
    /\ pc = "done"
    /\ searchText # << >>
    /\ bu # ""
    /\ create
    /\ ran = << "search" >>
    /\ Len(reqs) >= 1

(* C4: a block run that ends normally has issued exactly one POST and has    *)
(* printed two lines: the outcome message for the status line (201 Created:  *)
(* blocked, 404 Not Found: not found, 403 Forbidden: already blocked, other: *)
(* failure), then the status line; no block run issues a second POST.        *)
C4_BlockOutcome ==
    (ran = << "block" >>) =>
        /\ Len(reqs) <= 1
        /\ \A i \in 1..Len(reqs) :
             /\ reqs[i].method = "POST"
             /\ reqs[i].path = "users/block"
             /\ reqs[i].user = bu
        /\ (pc = "done") =>
             /\ Len(reqs) = 1
             /\ exit = ExitOK
             /\ Len(out) = 2
             /\ out[2].kind = "status"
             /\ out[1].user = bu
             /\ out[1].kind = CASE out[2].status = "201 Created" -> "blocked"
                                [] out[2].status = "404 Not Found" -> "notfound"
                                [] out[2].status = "403 Forbidden" -> "alreadyblocked"
                                [] OTHER -> "failed"

C4_Witness ==
    /\ ran = << "block" >>
    /\ pc = "done"
    /\ out = << [kind |-> "alreadyblocked", user |-> "7"],
                [kind |-> "status", status |-> "403 Forbidden"] >>

\* the sample handles and addresses of the claim
C5_Bob == << "b","o","b" >>

C5_BadHandles == { << "b","o","b","1" >>, << "b","o","b","_","2" >>, << >> }

C5_GoodEmail == << "a","@","b",".","c","o","m" >>

C5_NotAnEmail == << "n","o","t","-","a","n","-","e","m","a","i","l" >>

(* C5: once createUser has validated its input: a handle that is not one or  *)
(* more letters ends the run by log.Fatalf naming the handle, with no        *)
(* request issued; else an address longer than 254 characters, or one like   *)
(* "not-an-email", ends it naming the address, with no request issued; a     *)
(* request is issued only for a letters-only handle and an address of at     *)
(* most 254 characters holding an @; for "bob" and "a@b.com" exactly one     *)
(* POST is issued, whatever the name.                                        *)
C5_ValidationBeforeNetwork ==
    (ran = << "create" >> /\ pc \in {"create_post", "fatal", "done"}) =>
        LET lettersOnly == /\ inputUserName # << >>
                           /\ \A i \in 1..Len(inputUserName) :
                                inputUserName[i] \in Letters
            fatalNaming(what, value) ==
                /\ pc = "fatal"
                /\ exit = ExitFatalf
                /\ errOut = << [kind |-> "fatalf", what |-> what, value |-> value] >>
                /\ reqs = << >>
        IN  /\ ~lettersOnly => fatalNaming("username", inputUserName)
            /\ inputUserName \in C5_BadHandles
                 => fatalNaming("username", inputUserName)
            /\ (lettersOnly /\ (Len(inputEmail) > 254 \/ inputEmail = C5_NotAnEmail))
                 => fatalNaming("email", inputEmail)
            /\ exit = ExitFatalf => reqs = << >>
            /\ reqs # << >> =>
                 /\ Len(reqs) = 1
                 /\ reqs[1].method = "POST"
                 /\ reqs[1].path = "users"
                 /\ lettersOnly
                 /\ Len(inputEmail) <= 254
                 /\ \E i \in 1..Len(inputEmail) : inputEmail[i] = "@"
            /\ (inputUserName = C5_Bob /\ inputEmail = C5_GoodEmail) =>
                 /\ exit # ExitFatalf
                 /\ pc \in {"fatal", "done"} => Len(reqs) = 1

C5_Witness ==
    /\ ran = << "create" >>
    /\ pc = "fatal"
    /\ inputUserName = C5_Bob
    /\ Len(inputEmail) = 255
    /\ errOut = << [kind |-> "fatalf", what |-> "email", value |-> inputEmail] >>
    /\ reqs = << >>

(* C6: after the sort the collection is a permutation of what was fetched,   *)
(* in ascending identifier order, and the identifiers a finished list or     *)
(* search run printed are in ascending order; the list run printed every     *)
(* fetched user once per occurrence.                                         *)
C6_SortedOutput ==
    (IsFetchRun /\ pc \in {"search", "display", "done"}) =>
        /\ \A u \in UserPool : Count(jsonResponse, u) = Count(Flatten(served), u)
        /\ Len(jsonResponse) = Len(Flatten(served))
        /\ \A i \in 1..(Len(jsonResponse) - 1) :
             jsonResponse[i].ID <= jsonResponse[i + 1].ID
        /\ (pc = "done") =>
             /\ \A i \in 1..(Len(PrintedIDs) - 1) : PrintedIDs[i] <= PrintedIDs[i + 1]
             /\ (ran[1] = "list") =>
                  PrintedIDs = [ i \in 1..Len(jsonResponse) |-> jsonResponse[i].ID ]

C6_Witness ==
    /\ pc = "done"
    /\ ran = << "list" >>
    /\ served = << << U2, U1 >> >>
    /\ PrintedIDs = << 1, 2 >>

\* the claim's match: the text occurs in the name, the handle or the e-mail
C7_Hit(v) ==
    \/ Contains(v.Name, searchText)
    \/ Contains(v.Username, searchText)
    \/ Contains(v.Email, searchText)

(* C7: a finished search run printed one row per user whose name, handle or  *)
(* e-mail contains the search text, in the order of the collection, each     *)
(* with that user's identifier, name, handle and e-mail; with no such user   *)
(* it printed the single line "No users found".                              *)
C7_SearchRows ==
    (pc = "done" /\ ran = << "search" >>) =>
        LET hits == SelectSeq(jsonResponse, C7_Hit)
        IN  IF hits = << >>
            THEN out = << [kind |-> "nousers"] >>
            ELSE /\ Len(out) = Len(hits)
                 /\ \A i \in 1..Len(hits) :
                      out[i] = [kind |-> "row", ID |-> hits[i].ID,
                                Name |-> hits[i].Name,
                                Username |-> hits[i].Username,
                                Email |-> hits[i].Email]

C7_Witness ==
    /\ pc = "done"
    /\ ran = << "search" >>
    /\ searchText = << "K" >>
    /\ jsonResponse = << U1, U2 >>
    /\ Len(out) = 1
    /\ out[1].kind = "row"
    /\ out[1].ID = 1

\* the fault of request k has ended the run: by a panic, with no later
\* request and nothing printed
C8_Aborted(k) ==
    /\ pc = "fatal"
    /\ exit = ExitPanic
    /\ k = Len(reqs)
    /\ out = << >>
    /\ open = {}

\* request k is the latest, and the program has not yet looked at the headers
\* of its response
C8_HeadersUnread(k) ==
    /\ k = Len(reqs)
    /\ faultLog[k] = {"header"}
    /\ pc \in {"read_first", "headers", "read_next"}

(* C8, as claimed: any fault of any response, a missing or non-numeric       *)
(* pagination header of a later page included, aborts the fetch.             *)
C8_AnyFaultAborts ==
    IsFetchRun =>
        \A k \in 1..Len(faultLog) :
            faultLog[k] # {} => (C8_Aborted(k) \/ C8_HeadersUnread(k))

\* the faults of request k that the program looks at: the pagination headers
\* are read from the first response only
C8_FaultsRead(k) == IF k = 1 THEN faultLog[k] ELSE faultLog[k] \ {"header"}

(* C8, amended: a transport, body-read or JSON decode error on any page, or  *)
(* a missing or non-numeric X-Page / X-Total-Pages header on the first page, *)
(* aborts the fetch at once: no later request, nothing printed, exit by      *)
(* panic.  The headers of later pages are never read.                        *)
C8_ReadFaultAborts ==
    IsFetchRun =>
        /\ \A k \in 1..Len(faultLog) :
             C8_FaultsRead(k) # {} =>
                 \/ C8_Aborted(k)
                 \/ (k = 1 /\ C8_HeadersUnread(k) /\ pc # "read_next")
        /\ (pc = "fatal") => (out = << >> /\ C8_FaultsRead(Len(reqs)) # {})

C8_Witness ==
    /\ IsFetchRun
    /\ pc = "fatal"
    /\ Len(reqs) = 2
    /\ faultLog[2] = {"badjson"}
    /\ jsonResponse # << >>
    /\ out = << >>

(* C9: the collection a fetch returns holds no identifier twice.             *)
C9_UniqueIdentifiers ==
    FetchReturned =>
        \A i, j \in 1..Len(jsonResponse) :
            i # j => jsonResponse[i].ID # jsonResponse[j].ID

(* C10: at every point of a fetch at most one response body is open, and     *)
(* none is open once the fetch has returned.                                 *)
C10_AtMostOneOpenBody ==
    /\ Cardinality(open) <= 1
    /\ FetchReturned => open = {}

====
